---- MODULE Spec2Model ----
(***************************************************************************)
(* State-machine model of src/src/main.cpp: the SG Ready heat-pump         *)
(* controller.  The countdown timer calls updateMode once per second, the  *)
(* MQTT client calls onMqttMessage, onMqttPublish, onMqttConnect and       *)
(* onMqttDisconnect from its own task.  The file takes no lock and         *)
(* disables no interrupt, so the steps of updateMode and of the callbacks  *)
(* interleave instruction by instruction: each is modelled by the sequence *)
(* of its loads and stores of the globals the other task stores or loads.  *)
(***************************************************************************)
EXTENDS Integers, Sequences, FiniteSets, TLC

(* ------------------------------ constants ------------------------------ *)

MIN_STATE_SECONDS == 600

MQTT_KEEPALIVE_INTERVAL == MIN_STATE_SECONDS \div 10

MQTT_DEAD_TIME == MQTT_KEEPALIVE_INTERVAL * 3

\* the modulus of the "paranoid pin set" test, line 148
PARANOID_INTERVAL == 30

\* the two levels digitalWrite drives SG_PIN_LSB to
LOW == "LOW"

HIGH == "HIGH"

\* entityTopic(g_excessName) + "/set": uniqueID() is the fixed "sgready_board"
CommandTopic == "sgready_board_Excess/set"

(* ------------------------------- bounds -------------------------------- *)

\* Spec, QuietSpec and ForcedSpec: no tick begins once g_currentStateTime has
\* reached MaxTime
MaxTime == 640

\* StuckSpec: StuckTicks ticks are followed from each initial state
StuckTicks == 70

\* CadenceSpec: no tick begins once MaxTicks ticks have begun since startup
MaxTicks == 1000

\* WrapSpec: the first tick is the one WrapLead ticks before the clock wraps,
\* and no tick begins once the wrapped clock has reached WrapLag
WrapLead == 20

WrapLag == 5

\* the messages that arrive: every payload on the command topic, and one
\* message of another topic
Payloads == {"ON", "OFF", "MAYBE"}

Messages ==
  {[topic |-> CommandTopic, payload |-> p] : p \in Payloads}
    \cup {[topic |-> "sgready_board_Mode/state", payload |-> "ON"]}

\* at most MaxUnacked PUBACKs are outstanding at a time (the PUBACKs of
\* further publishes are lost), and a PUBACK that has not arrived when
\* MaxAckDelay ticks have begun since the latest publish is lost
MaxUnacked == 2

MaxAckDelay == 1

\* ForcedSpec: the broker connection is lost and made again while the clock
\* stands at ReconnectAt
ReconnectAt == 50

\* Spec and QuietSpec: a message, a connection or a disconnection arrives
\* while the clock is less than ArrivalSlack ticks after 0 (startup, a
\* commit), or less than ArrivalSlack ticks before or after
\* MIN_STATE_SECONDS (the dwell gate)
ArrivalSlack == 1

\* a callback of the MQTT task that is in progress sees at most MaxOverlap
\* calls of updateMode begin (it also runs beside the call it preempted)
MaxOverlap == 1

(* ----------------------- uint32_t arithmetic --------------------------- *)
(* A uint32_t is represented by the 32-bit two's complement integer with   *)
(* the same bit pattern: 0 .. 2^31-1 are themselves, 2^31 .. 2^32-1 are    *)
(* -2^31 .. -1.  Every operator below computes the C result modulo 2^32.   *)

INT_MIN == -2147483647 - 1

INT_MAX == 2147483647

\* x with its top bit flipped, i.e. x + 2^31 modulo 2^32
FlipTop(x) == IF x >= 0 THEN x + INT_MIN ELSE x - INT_MIN

\* ++x on a uint32_t
U32Inc(x) == IF x = INT_MAX THEN INT_MIN ELSE x + 1

\* a - b on uint32_t
U32Sub(a, b) ==
  IF (a >= 0) = (b >= 0) THEN a - b
  ELSE IF a >= 0 THEN FlipTop(a - FlipTop(b))
  ELSE FlipTop(FlipTop(a) - b)

\* a < b, a > b on uint32_t
U32Lt(a, b) == IF (a >= 0) = (b >= 0) THEN a < b ELSE a >= 0

U32Gt(a, b) == U32Lt(b, a)

\* a % m on uint32_t, for 0 < m < 2^31
U32Mod(a, m) ==
  IF a >= 0 THEN a % m
  ELSE (((a - INT_MIN) % m) + ((INT_MAX % m) + 1)) % m

\* 2^32 - WrapLead as a uint32_t
WrapStart == 0 - WrapLead

(* -------------------------------- state -------------------------------- *)

VARIABLES
  g_excess,                 \* bool g_excess
  g_currentMode,            \* int g_currentMode
  g_mqttLastResponseTime,   \* uint32_t g_mqttLastResponseTime
  g_currentStateTime,       \* uint32_t g_currentStateTime
  pin,                      \* level of SG_PIN_LSB after the last digitalWrite
  pcTick,                   \* position of the timer task inside updateMode
  pcMsg,                    \* position of the MQTT task inside its callback
  r_excess,                 \* register of updateMode: g_excess as loaded for
                            \* the comparison of line 157
  r_stateTime,              \* register of onMqttPublish: g_currentStateTime
                            \* as loaded at line 329 (0 outside the callback)
  msg,                      \* the message onMqttMessage is handling
  unacked,                  \* the QoS 1 publishes the broker has not yet
                            \* acknowledged: their number (n) and the ticks
                            \* begun since the latest of them (age)
  out,                      \* what the last step wrote: publishes and pin writes
  hist,                     \* history (bookkeeping for the properties)
  obs                       \* what a scenario's observer counts (see the
                            \* specifications); the program never reads it

vars == <<g_excess, g_currentMode, g_mqttLastResponseTime, g_currentStateTime,
          pin, pcTick, pcMsg, r_excess, r_stateTime, msg, unacked, out, hist,
          obs>>

NoMsg == [topic |-> "", payload |-> ""]

(* ------------------------------ outputs -------------------------------- *)

\* digitalWrite(SG_PIN_LSB, g_currentMode ? HIGH : LOW)
PinLevel(mode) == IF mode # 0 THEN HIGH ELSE LOW

setPins(mode) == [op |-> "digitalWrite", val |-> PinLevel(mode)]

\* mqttClient.publish(<Excess>/state, 1, true, g_excess ? "ON" : "OFF")
mqttPublishExcess(excess) ==
  [op |-> "publishExcess", val |-> IF excess THEN "ON" ELSE "OFF"]

\* mqttClient.publish(<Mode>/state, 1, true, String(g_currentMode))
mqttPublishMode(mode) ==
  [op |-> "publishMode", val |-> IF mode = 0 THEN "0" ELSE "1"]

\* mqttClient.publish("homeassistant/<component>/.../config", 1, true, ...)
mqttPublishConfig(component) == [op |-> "publishConfig", val |-> component]

\* Serial.printf("Error: ...") of onMqttMessage
Diagnostic(text) == [op |-> "diagnostic", val |-> text]

\* every mqttClient.publish of the file is made with QoS 1: the broker owes
\* a PUBACK for each
QoS1 == {"publishExcess", "publishMode", "publishConfig"}

RECURSIVE Publishes(_)
Publishes(written) ==
  IF written = <<>> THEN 0
  ELSE (IF Head(written).op \in QoS1 THEN 1 ELSE 0) + Publishes(Tail(written))

\* the PUBACKs owed once a step has written `written`
Sent(u, written) ==
  IF Publishes(written) = 0 THEN u
  ELSE [n |-> IF u.n + Publishes(written) > MaxUnacked THEN MaxUnacked
              ELSE u.n + Publishes(written),
        age |-> 0]

\* the PUBACKs owed once one more tick has begun
Aged(u) ==
  IF u.n = 0 THEN u
  ELSE IF u.age >= MaxAckDelay THEN [n |-> 0, age |-> 0]
  ELSE [u EXCEPT !.age = @ + 1]

(* ------------------------ conditions of updateMode --------------------- *)

\* (variant: the heartbeat test reads the advanced clock)
HeartbeatDueAfterAdvance(stateTime) ==
  U32Mod(U32Inc(stateTime), MQTT_KEEPALIVE_INTERVAL) = 0

\* line 132: g_currentStateTime % MQTT_KEEPALIVE_INTERVAL == 0
HeartbeatDue(stateTime) == U32Mod(stateTime, MQTT_KEEPALIVE_INTERVAL) = 0

\* (variant: the gate opens one tick early)
DwellElapsedEarly(stateTime) == ~U32Lt(stateTime, MIN_STATE_SECONDS - 1)

\* (variant: the operands of the subtraction are exchanged)
mqttDiffSwapped(stateTime, lastResponse) == U32Sub(lastResponse, stateTime)

\* (variant: no dwell gate before the dead-check)
DwellGateOpen(stateTime) == TRUE

\* line 136, negated: !(++g_currentStateTime < MIN_STATE_SECONDS)
DwellElapsed(stateTime) == ~U32Lt(stateTime, MIN_STATE_SECONDS)

\* line 140: uint32_t mqttDiff = g_currentStateTime - g_mqttLastResponseTime
mqttDiff(stateTime, lastResponse) == U32Sub(stateTime, lastResponse)

\* line 142: mqttDiff > MQTT_DEAD_TIME
IsDead(stateTime, lastResponse) ==
  U32Gt(mqttDiff(stateTime, lastResponse), MQTT_DEAD_TIME)

\* (variant: the pin is re-asserted on every tick of the dead path)
ParanoidDueAlways(stateTime) == TRUE

\* line 148: g_currentStateTime % 30 == 0
ParanoidDue(stateTime) == U32Mod(stateTime, PARANOID_INTERVAL) = 0

\* line 157: g_currentMode == g_excess (the bool is promoted to int)
BoolToInt(b) == IF b THEN 1 ELSE 0

NoChangeRequested(mode, excess) == mode = BoolToInt(excess)

(* ------------------------------ history -------------------------------- *)
(* hist records what the properties need and the program does not store:   *)
(*   dwell    ticks begun since Mode last changed (or since startup),      *)
(*            counted up to MIN_STATE_SECONDS                              *)
(*   run      ticks begun since the program last set the clock to 0 (at    *)
(*            startup or in a commit), counted up to MIN_STATE_SECONDS     *)
(*   ackAge   ticks begun since the acknowledgement that was recorded last *)
(*            arrived (since the call of onMqttPublish that stored last),  *)
(*            counted up to MQTT_DEAD_TIME + 1; at startup no              *)
(*            acknowledgement exists                                       *)
(*   flight   ticks begun since the onMqttPublish in progress was called   *)
(*   verdict  what the comparison of line 142 found in the current or the  *)
(*            last updateMode that reached it                              *)
(*   before   g_excess when the onMqttMessage in progress, or the one that *)
(*            ended in the last step, was entered                          *)
(* A tick has begun when updateMode has advanced the clock (line 136).     *)

Saturate(n, cap) == IF n < cap THEN n + 1 ELSE cap

\* the steps of other handlers keep before only while onMqttMessage is
\* in progress
Forget(h) == [h EXCEPT !.before = (pcMsg \in {"parse", "echo"} /\ @)]

HistInit == [dwell |-> 0, run |-> 0, ackAge |-> MQTT_DEAD_TIME + 1,
             flight |-> 0, verdict |-> "none", before |-> FALSE]

\* the observer of a scenario (see the specifications) has seen nothing
ObsInit == [ticks |-> 0, beats |-> 0, quiet |-> FALSE, overlap |-> 0]

(* -------------------------------- Init --------------------------------- *)
(* The globals' initialisers (lines 60-63) and setup()'s setPins (353).    *)

Init ==
  /\ g_excess = FALSE
  /\ g_currentMode = 0
  /\ g_mqttLastResponseTime = 0
  /\ g_currentStateTime = 0
  /\ pin = PinLevel(0)
  /\ pcTick = "idle"
  /\ pcMsg = "idle"
  /\ r_excess = FALSE
  /\ r_stateTime = 0
  /\ msg = NoMsg
  /\ unacked = [n |-> 0, age |-> 0]
  /\ out = <<setPins(0)>>
  /\ hist = HistInit
  /\ obs = ObsInit

(* ------------------------------ updateMode ----------------------------- *)
(* The timer task.  g_currentStateTime, g_currentMode and the pin are      *)
(* stored by this task only; g_excess and g_mqttLastResponseTime are also  *)
(* stored by the MQTT task.  A step holds at most one load or store of a   *)
(* global the MQTT task stores, or one store of a global it loads: the     *)
(* MQTT task can run between any two such instructions.                    *)

\* lines 129-133: the heartbeat, published before the clock is advanced
updateMode_heartbeat ==
  /\ pcTick = "idle"
  /\ out' = IF HeartbeatDue(g_currentStateTime)
            THEN <<mqttPublishMode(g_currentMode)>> ELSE <<>>
  /\ unacked' = Sent(unacked, out')
  /\ pcTick' = "advance"
  /\ hist' = [Forget(hist) EXCEPT !.verdict = "none"]
  /\ UNCHANGED <<g_excess, g_currentMode, g_mqttLastResponseTime,
                 g_currentStateTime, pin, pcMsg, r_excess, r_stateTime, msg>>

\* lines 135-137: advance the clock, dwell gate
updateMode_advance ==
  /\ pcTick = "advance"
  /\ g_currentStateTime' = U32Inc(g_currentStateTime)
  /\ pcTick' = IF DwellElapsed(g_currentStateTime') THEN "deadcheck" ELSE "idle"
  /\ out' = <<>>
  /\ unacked' = Aged(unacked)
  /\ hist' = [Forget(hist) EXCEPT !.dwell = Saturate(@, MIN_STATE_SECONDS),
                                  !.run = Saturate(@, MIN_STATE_SECONDS),
                                  !.ackAge = Saturate(@, MQTT_DEAD_TIME + 1),
                                  !.flight = IF pcMsg = "ack"
                                             THEN Saturate(@, MQTT_DEAD_TIME + 1)
                                             ELSE 0]
  /\ UNCHANGED <<g_excess, g_currentMode, g_mqttLastResponseTime, pin,
                 pcMsg, r_excess, r_stateTime, msg>>

\* lines 139-142: g_mqttLastResponseTime is loaded, mqttDiff is computed and
\* compared
updateMode_deadcheck ==
  /\ pcTick = "deadcheck"
  /\ IF IsDead(g_currentStateTime, g_mqttLastResponseTime)
     THEN /\ hist' = [Forget(hist) EXCEPT !.verdict = "dead"]
          /\ pcTick' = "excess"
     ELSE /\ hist' = [Forget(hist) EXCEPT !.verdict = "alive"]
          /\ pcTick' = "compare"
  /\ out' = <<>>
  /\ UNCHANGED <<g_excess, g_currentMode, g_mqttLastResponseTime,
                 g_currentStateTime, pin, pcMsg, r_excess, r_stateTime, msg,
                 unacked>>

\* line 143: g_excess is loaded and tested; lines 147-153: with g_excess
\* false the pin is re-asserted every PARANOID_INTERVAL ticks and the call
\* returns
updateMode_excess ==
  /\ pcTick = "excess"
  /\ IF g_excess
     THEN /\ pcTick' = "clear"
          /\ out' = <<>>
          /\ pin' = pin
     ELSE /\ pcTick' = "idle"
          /\ IF ParanoidDue(g_currentStateTime)
             THEN /\ out' = <<setPins(g_currentMode)>>
                  /\ pin' = PinLevel(g_currentMode)
             ELSE /\ out' = <<>>
                  /\ pin' = pin
  /\ hist' = Forget(hist)
  /\ UNCHANGED <<g_excess, g_currentMode, g_mqttLastResponseTime,
                 g_currentStateTime, pcMsg, r_excess, r_stateTime, msg,
                 unacked>>

\* lines 144-145: after the Serial.printf, g_excess = false is stored
updateMode_clear ==
  /\ pcTick = "clear"
  /\ g_excess' = FALSE
  /\ pcTick' = "compare"
  /\ out' = <<>>
  /\ hist' = Forget(hist)
  /\ UNCHANGED <<g_currentMode, g_mqttLastResponseTime, g_currentStateTime,
                 pin, pcMsg, r_excess, r_stateTime, msg, unacked>>

\* lines 156-158: g_excess is loaded and compared with g_currentMode; do
\* nothing if no state change requested
updateMode_compare ==
  /\ pcTick = "compare"
  /\ r_excess' = g_excess
  /\ pcTick' = IF NoChangeRequested(g_currentMode, g_excess)
               THEN "idle" ELSE "commit"
  /\ out' = <<>>
  /\ hist' = Forget(hist)
  /\ UNCHANGED <<g_excess, g_currentMode, g_mqttLastResponseTime,
                 g_currentStateTime, pin, pcMsg, r_stateTime, msg, unacked>>

(* The commit, lines 160-161.  Line 161 names g_excess again, and no call   *)
(* lies between line 157 and line 161: a build loads g_excess a second     *)
(* time for the assignment, or stores the value it loaded for the          *)
(* comparison (r_excess).  The MQTT task can store g_excess in between, so *)
(* g_currentMode receives either of the two values; with the second load   *)
(* the commit can leave Mode as it was and still reset the clock, write    *)
(* the pin and publish.  The two stores are independent and are emitted in *)
(* either order (the source order is g_currentStateTime first).            *)

\* line 161: g_currentMode = g_excess
updateMode_storeMode ==
  /\ pcTick \in {"commit", "clockStored"}
  /\ g_currentMode' \in {BoolToInt(r_excess), BoolToInt(g_excess)}
  /\ pcTick' = IF pcTick = "commit" THEN "modeStored" ELSE "announce"
  /\ out' = <<>>
  /\ hist' = [Forget(hist) EXCEPT
               !.dwell = IF g_currentMode' # g_currentMode THEN 0 ELSE @]
  /\ UNCHANGED <<g_excess, g_mqttLastResponseTime, g_currentStateTime, pin,
                 pcMsg, r_excess, r_stateTime, msg, unacked>>

\* line 160: g_currentStateTime = 0
updateMode_storeClock ==
  /\ pcTick \in {"commit", "modeStored"}
  /\ g_currentStateTime' = 0
  /\ pcTick' = IF pcTick = "commit" THEN "clockStored" ELSE "announce"
  /\ out' = <<>>
  /\ hist' = [Forget(hist) EXCEPT !.run = 0]
  /\ UNCHANGED <<g_excess, g_currentMode, g_mqttLastResponseTime, pin,
                 pcMsg, r_excess, r_stateTime, msg, unacked>>

\* lines 162-163: setPins and mqttPublishMode write the committed Mode
updateMode_announce ==
  /\ pcTick = "announce"
  /\ pin' = PinLevel(g_currentMode)
  /\ out' = <<setPins(g_currentMode), mqttPublishMode(g_currentMode)>>
  /\ unacked' = Sent(unacked, out')
  /\ pcTick' = "echo"
  /\ hist' = Forget(hist)
  /\ UNCHANGED <<g_excess, g_currentMode, g_mqttLastResponseTime,
                 g_currentStateTime, pcMsg, r_excess, r_stateTime, msg>>

\* lines 164-165: mqttPublishExcess loads g_excess again (line 117)
updateMode_echo ==
  /\ pcTick = "echo"
  /\ out' = <<mqttPublishExcess(g_excess)>>
  /\ unacked' = Sent(unacked, out')
  /\ pcTick' = "idle"
  /\ hist' = Forget(hist)
  /\ UNCHANGED <<g_excess, g_currentMode, g_mqttLastResponseTime,
                 g_currentStateTime, pin, pcMsg, r_excess, r_stateTime, msg>>

(* ----------------------------- onMqttMessage --------------------------- *)
(* The MQTT client calls every callback registered in setup() (lines       *)
(* 357-362) from its one task: a callback runs to its end before the next  *)
(* is called, and only updateMode runs in between its instructions.        *)

\* (variant: a command also restarts the clock)
onMqttMessage_enterRestart(topic, payload) ==
  /\ pcMsg = "idle"
  /\ msg' = [topic |-> topic, payload |-> payload]
  /\ g_excess' = FALSE
  /\ g_currentStateTime' = 0
  /\ pcMsg' = "parse"
  /\ out' = <<>>
  /\ hist' = [hist EXCEPT !.before = g_excess]
  /\ UNCHANGED <<r_excess, r_stateTime>>
  /\ UNCHANGED <<g_currentMode, g_mqttLastResponseTime, pin, pcTick, unacked>>

\* lines 306-309: the strings are built and g_excess is cleared
onMqttMessage_enter(topic, payload) ==
  /\ pcMsg = "idle"
  /\ msg' = [topic |-> topic, payload |-> payload]
  /\ g_excess' = FALSE
  /\ pcMsg' = "parse"
  /\ out' = <<>>
  /\ hist' = [hist EXCEPT !.before = g_excess]
  /\ UNCHANGED <<r_excess, r_stateTime>>
  /\ UNCHANGED <<g_currentMode, g_mqttLastResponseTime, g_currentStateTime,
                 pin, pcTick, unacked>>

onMqttMessage_begin ==
  \E m \in Messages : onMqttMessage_enter(m.topic, m.payload)

\* (variant: every payload but "OFF" activates)
ParsedLenient(m, excess) ==
  IF m.topic = CommandTopic /\ m.payload # "OFF" THEN TRUE ELSE excess

\* lines 311-320: the value the handler leaves in g_excess
Parsed(m, excess) ==
  IF m.topic = CommandTopic /\ m.payload = "ON" THEN TRUE ELSE excess

\* lines 315-320: the diagnostics
Diagnostics(m) ==
  IF m.topic # CommandTopic
  THEN <<Diagnostic("unknown topic")>>
  ELSE IF m.payload # "ON" /\ m.payload # "OFF"
  THEN <<Diagnostic("invalid payload")>>
  ELSE <<>>

\* lines 311-320: topic and payload are tested, "ON" sets g_excess
onMqttMessage_parse ==
  /\ pcMsg = "parse"
  /\ g_excess' = Parsed(msg, g_excess)
  /\ out' = Diagnostics(msg)
  /\ pcMsg' = "echo"
  /\ UNCHANGED <<r_excess, r_stateTime>>
  /\ UNCHANGED <<g_currentMode, g_mqttLastResponseTime, g_currentStateTime,
                 pin, pcTick, msg, unacked, hist>>

\* lines 322-323: mqttPublishExcess reads g_excess again and echoes it
onMqttMessage_end ==
  /\ pcMsg = "echo"
  /\ out' = <<mqttPublishExcess(g_excess)>>
  /\ unacked' = Sent(unacked, out')
  /\ pcMsg' = "idle"
  /\ msg' = NoMsg
  /\ UNCHANGED <<r_excess, r_stateTime>>
  /\ UNCHANGED <<g_excess, g_currentMode, g_mqttLastResponseTime,
                 g_currentStateTime, pin, pcTick, hist>>

(* ----------------------------- onMqttPublish --------------------------- *)

\* the broker owes the PUBACK of a publish, whichever it was
PubAckPending == unacked.n > 0

\* line 329, the load of g_currentStateTime; the packet id is not looked at
onMqttPublish_load ==
  /\ pcMsg = "idle"
  /\ PubAckPending
  /\ r_stateTime' = g_currentStateTime
  /\ pcMsg' = "ack"
  /\ unacked' = IF unacked.n = 1 THEN [n |-> 0, age |-> 0]
                ELSE [unacked EXCEPT !.n = @ - 1]
  /\ out' = <<>>
  /\ hist' = [Forget(hist) EXCEPT !.flight = 0]
  /\ UNCHANGED <<g_excess, g_currentMode, g_mqttLastResponseTime,
                 g_currentStateTime, pin, pcTick, r_excess, msg>>

\* line 329, the store to g_mqttLastResponseTime
onMqttPublish_store ==
  /\ pcMsg = "ack"
  /\ g_mqttLastResponseTime' = r_stateTime
  /\ r_stateTime' = 0
  /\ pcMsg' = "idle"
  /\ out' = <<>>
  /\ hist' = [hist EXCEPT !.ackAge = hist.flight, !.flight = 0]
  /\ UNCHANGED <<g_excess, g_currentMode, g_currentStateTime, pin, pcTick,
                 r_excess, msg, unacked>>

(* ------------------- onMqttConnect, onMqttDisconnect ------------------- *)

\* lines 263-265 of mqttHomeAssistantDiscovery: the switch's configuration
\* and mqttPublishExcess
mqttDiscoverExcess(excess) ==
  <<mqttPublishConfig("switch"), mqttPublishExcess(excess)>>

\* lines 267-269 of mqttHomeAssistantDiscovery: the sensor's configuration
\* and mqttPublishMode
mqttDiscoverMode(mode) ==
  <<mqttPublishConfig("sensor"), mqttPublishMode(mode)>>

\* (variant: a new connection restarts the clock)
onMqttConnectRestart ==
  /\ pcMsg = "idle"
  /\ out' = mqttDiscoverExcess(g_excess)
  /\ unacked' = Sent(unacked, out')
  /\ pcMsg' = "discovery"
  /\ g_currentStateTime' = 0
  /\ hist' = Forget(hist)
  /\ UNCHANGED <<r_excess, r_stateTime>>
  /\ UNCHANGED <<g_excess, g_currentMode, g_mqttLastResponseTime, pin,
                 pcTick, msg>>

\* lines 272-277 and 205-265: mqttClient.connected() holds in the callback;
\* g_excess is read by mqttPublishExcess
onMqttConnect_begin ==
  /\ pcMsg = "idle"
  /\ out' = mqttDiscoverExcess(g_excess)
  /\ unacked' = Sent(unacked, out')
  /\ pcMsg' = "discovery"
  /\ hist' = Forget(hist)
  /\ UNCHANGED <<r_excess, r_stateTime>>
  /\ UNCHANGED <<g_excess, g_currentMode, g_mqttLastResponseTime,
                 g_currentStateTime, pin, pcTick, msg>>

\* lines 267-281: g_currentMode is read by mqttPublishMode, then the
\* command topic is subscribed to
onMqttConnect_end ==
  /\ pcMsg = "discovery"
  /\ out' = mqttDiscoverMode(g_currentMode)
              \o <<[op |-> "subscribe", val |-> CommandTopic]>>
  /\ unacked' = Sent(unacked, out')
  /\ pcMsg' = "idle"
  /\ hist' = Forget(hist)
  /\ UNCHANGED <<r_excess, r_stateTime>>
  /\ UNCHANGED <<g_excess, g_currentMode, g_mqttLastResponseTime,
                 g_currentStateTime, pin, pcTick, msg>>

\* lines 284-289: the reconnect timer is started if WiFi is connected; the
\* broker's outstanding PUBACKs are lost with the connection
onMqttDisconnect ==
  /\ pcMsg = "idle"
  /\ out' \in {<<>>, <<[op |-> "xTimerStart", val |-> "mqttReconnectTimer"]>>}
  /\ unacked' = [n |-> 0, age |-> 0]
  /\ hist' = Forget(hist)
  /\ UNCHANGED <<r_excess, r_stateTime>>
  /\ UNCHANGED <<g_excess, g_currentMode, g_mqttLastResponseTime,
                 g_currentStateTime, pin, pcTick, pcMsg, msg>>

(* ---------------------------- specification ---------------------------- *)
(* Spec: the timer task and the MQTT task run and preempt each other with  *)
(* no restriction other than the bounds above: no tick begins once the     *)
(* clock has reached MaxTime; messages, connections and disconnections     *)
(* arrive while the clock is within ArrivalSlack ticks of 0 or of          *)
(* MIN_STATE_SECONDS (the clock values at which updateMode starts a dwell  *)
(* window, gates and commits); a callback in progress sees at most         *)
(* MaxOverlap calls of updateMode begin; a PUBACK arrives at most          *)
(* MaxAckDelay ticks after the latest publish (see Aged).                  *)

InTime == U32Lt(g_currentStateTime, MaxTime)

Arrival ==
  \/ U32Lt(g_currentStateTime, ArrivalSlack)
  \/ /\ ~U32Lt(g_currentStateTime, MIN_STATE_SECONDS - ArrivalSlack)
     /\ U32Lt(g_currentStateTime, MIN_STATE_SECONDS + ArrivalSlack)

\* updateMode may be called: no callback is in progress, or the one in
\* progress has seen fewer than MaxOverlap calls begin
MayBegin == pcMsg = "idle" \/ obs.overlap < MaxOverlap

\* the observer counts the calls of updateMode that began while the
\* callback in progress was running
Overlap(called) ==
  obs' = [obs EXCEPT !.overlap = IF pcMsg' = "idle" THEN 0
                                 ELSE IF called THEN @ + 1 ELSE @]

Next ==
  \/ InTime /\ MayBegin /\ updateMode_heartbeat /\ Overlap(TRUE)
  \/ updateMode_advance /\ Overlap(FALSE)
  \/ updateMode_deadcheck /\ Overlap(FALSE)
  \/ updateMode_excess /\ Overlap(FALSE)
  \/ updateMode_clear /\ Overlap(FALSE)
  \/ updateMode_compare /\ Overlap(FALSE)
  \/ updateMode_storeMode /\ Overlap(FALSE)
  \/ updateMode_storeClock /\ Overlap(FALSE)
  \/ updateMode_announce /\ Overlap(FALSE)
  \/ updateMode_echo /\ Overlap(FALSE)
  \/ Arrival /\ onMqttMessage_begin /\ Overlap(FALSE)
  \/ onMqttMessage_parse /\ Overlap(FALSE)
  \/ onMqttMessage_end /\ Overlap(FALSE)
  \/ onMqttPublish_load /\ Overlap(FALSE)
  \/ onMqttPublish_store /\ Overlap(FALSE)
  \/ Arrival /\ onMqttConnect_begin /\ Overlap(FALSE)
  \/ onMqttConnect_end /\ Overlap(FALSE)
  \/ Arrival /\ onMqttDisconnect /\ Overlap(FALSE)

Spec == Init /\ [][Next]_vars

(* QuietSpec: as Spec, and at some point the broker and the command source *)
(* may fall silent for good (GoQuiet): from then on no message, no         *)
(* acknowledgement and no connection arrives; a callback that was entered  *)
(* runs on.  The silence is counted from the first return of updateMode    *)
(* after the last arrival: GoQuiet is taken between two calls, and only    *)
(* while the clock is at most QuietBy and the last response time is of the *)
(* current clock epoch, so that the connection is dead when the clock      *)
(* reaches MIN_STATE_SECONDS.                                              *)

QuietBy == MIN_STATE_SECONDS - MQTT_DEAD_TIME - 1

GoQuiet ==
  /\ ~obs.quiet
  /\ pcTick = "idle"
  /\ pcMsg # "ack"
  /\ g_currentStateTime <= QuietBy
  /\ g_mqttLastResponseTime <= g_currentStateTime
  /\ obs' = [obs EXCEPT !.quiet = TRUE]
  /\ UNCHANGED <<g_excess, g_currentMode, g_mqttLastResponseTime,
                 g_currentStateTime, pin, pcTick, pcMsg, r_excess, r_stateTime,
                 msg, unacked, out, hist>>

NextQuiet ==
  \/ InTime /\ MayBegin /\ updateMode_heartbeat /\ Overlap(TRUE)
  \/ updateMode_advance /\ Overlap(FALSE)
  \/ updateMode_deadcheck /\ Overlap(FALSE)
  \/ updateMode_excess /\ Overlap(FALSE)
  \/ updateMode_clear /\ Overlap(FALSE)
  \/ updateMode_compare /\ Overlap(FALSE)
  \/ updateMode_storeMode /\ Overlap(FALSE)
  \/ updateMode_storeClock /\ Overlap(FALSE)
  \/ updateMode_announce /\ Overlap(FALSE)
  \/ updateMode_echo /\ Overlap(FALSE)
  \/ ~obs.quiet /\ Arrival /\ onMqttMessage_begin /\ Overlap(FALSE)
  \/ onMqttMessage_parse /\ Overlap(FALSE)
  \/ onMqttMessage_end /\ Overlap(FALSE)
  \/ ~obs.quiet /\ onMqttPublish_load /\ Overlap(FALSE)
  \/ onMqttPublish_store /\ Overlap(FALSE)
  \/ ~obs.quiet /\ Arrival /\ onMqttConnect_begin /\ Overlap(FALSE)
  \/ onMqttConnect_end /\ Overlap(FALSE)
  \/ ~obs.quiet /\ Arrival /\ onMqttDisconnect /\ Overlap(FALSE)
  \/ GoQuiet

QuietSpec == Init /\ [][NextQuiet]_vars

(* Stuck: the states of a silent uptime in which Mode is Excess, the pin   *)
(* is HIGH, g_excess is already false, no callback is in progress, the     *)
(* last response time is below MIN_STATE_SECONDS - MQTT_DEAD_TIME, and     *)
(* updateMode is between two calls or on its way from line 129 to the      *)
(* return of line 137 or of line 152.  For every clock value the call in   *)
(* progress, or the next, returns at the dwell gate (clock below           *)
(* MIN_STATE_SECONDS) or finds mqttDiff = clock - last above MQTT_DEAD_TIME *)
(* and g_excess false and returns at line 152, before the comparison of    *)
(* line 157: it stores nothing but the clock and the unchanged pin level.  *)

Stuck ==
  /\ obs.quiet
  /\ pcMsg = "idle"
  /\ g_currentMode = 1
  /\ pin = HIGH
  /\ ~g_excess
  /\ U32Lt(g_mqttLastResponseTime, MIN_STATE_SECONDS - MQTT_DEAD_TIME)
  /\ pcTick \in {"idle", "advance", "deadcheck", "excess"}
  /\ pcTick \in {"deadcheck", "excess"} => DwellElapsed(g_currentStateTime)

\* no step leaves Stuck: once Stuck, Mode is Excess and the pin HIGH for
\* ever (an action property of QuietSpec and of StuckSpec)
StuckForever == [][Stuck => Stuck']_vars

(* StuckSpec: the later course of a silent uptime that is Stuck.           *)
(* QuietSpec follows it from startup to the clock MaxTime; StuckSpec       *)
(* follows it for StuckTicks ticks from the clock MaxTime, from before the *)
(* clock's top bit is set, from WrapLead ticks before the clock wraps (on  *)
(* through the wrap) and, after the wrap, from before MIN_STATE_SECONDS:   *)
(* the clock values next to every value the conditions of updateMode       *)
(* compare or wrap at.  The initial states are the Stuck states between    *)
(* two calls at these clocks, with the history counters saturated; every   *)
(* step of updateMode is allowed.                                          *)

StuckStarts ==
  {MaxTime, INT_MAX - StuckTicks \div 2, WrapStart,
   MIN_STATE_SECONDS - StuckTicks \div 2}

StuckLasts == {0, 1, QuietBy}

StuckInit ==
  /\ g_excess = FALSE
  /\ g_currentMode = 1
  /\ g_currentStateTime \in StuckStarts
  /\ g_mqttLastResponseTime \in StuckLasts
  /\ pin = PinLevel(1)
  /\ pcTick = "idle"
  /\ pcMsg = "idle"
  /\ r_excess = TRUE
  /\ r_stateTime = 0
  /\ msg = NoMsg
  /\ unacked = [n |-> 0, age |-> 0]
  /\ out = IF DwellElapsed(g_currentStateTime) /\ ParanoidDue(g_currentStateTime)
           THEN <<setPins(1)>> ELSE <<>>
  /\ hist = [HistInit EXCEPT !.dwell = MIN_STATE_SECONDS,
                             !.run = MIN_STATE_SECONDS,
                             !.verdict = IF DwellElapsed(g_currentStateTime)
                                         THEN "dead" ELSE "none"]
  /\ obs = [ObsInit EXCEPT !.quiet = TRUE]

NextStuck ==
  \/ /\ obs.ticks < StuckTicks
     /\ updateMode_heartbeat
     /\ obs' = [obs EXCEPT !.ticks = @ + 1]
  \/ /\ \/ updateMode_advance
        \/ updateMode_deadcheck
        \/ updateMode_excess
        \/ updateMode_clear
        \/ updateMode_compare
        \/ updateMode_storeMode
        \/ updateMode_storeClock
        \/ updateMode_announce
        \/ updateMode_echo
     /\ UNCHANGED obs

StuckSpec == StuckInit /\ [][NextStuck]_vars

(* ForcedSpec: the scenario of the forced reversion.  No handler is        *)
(* preempted: a callback is called between two calls of updateMode and     *)
(* runs to its end before the next.  Messages arrive as in Spec; the       *)
(* connection is lost and made again as in Spec and also while the clock   *)
(* stands at ReconnectAt; acknowledgements arrive, or are lost, as in      *)
(* Spec.                                                                   *)

Reconnection == Arrival \/ g_currentStateTime = ReconnectAt

NextForced ==
  \/ InTime /\ pcMsg = "idle" /\ updateMode_heartbeat /\ UNCHANGED obs
  \/ updateMode_advance /\ UNCHANGED obs
  \/ updateMode_deadcheck /\ UNCHANGED obs
  \/ updateMode_excess /\ UNCHANGED obs
  \/ updateMode_clear /\ UNCHANGED obs
  \/ updateMode_compare /\ UNCHANGED obs
  \/ updateMode_storeMode /\ UNCHANGED obs
  \/ updateMode_storeClock /\ UNCHANGED obs
  \/ updateMode_announce /\ UNCHANGED obs
  \/ updateMode_echo /\ UNCHANGED obs
  \/ pcTick = "idle" /\ Arrival /\ onMqttMessage_begin /\ UNCHANGED obs
  \/ onMqttMessage_parse /\ UNCHANGED obs
  \/ onMqttMessage_end /\ UNCHANGED obs
  \/ pcTick = "idle" /\ onMqttPublish_load /\ UNCHANGED obs
  \/ onMqttPublish_store /\ UNCHANGED obs
  \/ pcTick = "idle" /\ Reconnection /\ onMqttConnect_begin /\ UNCHANGED obs
  \/ onMqttConnect_end /\ UNCHANGED obs
  \/ pcTick = "idle" /\ Reconnection /\ onMqttDisconnect /\ UNCHANGED obs

ForcedSpec == Init /\ [][NextForced]_vars

(* CadenceSpec: the scenario of the heartbeat count.  No callback is       *)
(* preempted, commands are "ON" and "OFF" on the command topic and arrive  *)
(* as in Spec between two calls of updateMode, the broker acknowledges     *)
(* every publish at once (updateMode goes on when the acknowledgement has  *)
(* been handled), and the observer counts the calls of updateMode since    *)
(* startup and the heartbeats they published.  Every heartbeat being       *)
(* acknowledged, no dead-check finds the connection dead: the dead path    *)
(* (lines 143-153) is never entered and has no disjunct here.              *)

Settled == pcMsg = "idle" /\ ~PubAckPending

CountTick ==
  obs' = [obs EXCEPT !.ticks = @ + 1,
                     !.beats = IF out' # <<>> THEN @ + 1 ELSE @]

NextCadence ==
  \/ /\ obs.ticks < MaxTicks /\ pcMsg = "idle" /\ Settled
     /\ updateMode_heartbeat /\ CountTick
  \/ Settled /\ updateMode_advance /\ UNCHANGED obs
  \/ Settled /\ updateMode_deadcheck /\ UNCHANGED obs
  \/ Settled /\ updateMode_compare /\ UNCHANGED obs
  \/ Settled /\ updateMode_storeMode /\ UNCHANGED obs
  \/ Settled /\ updateMode_storeClock /\ UNCHANGED obs
  \/ Settled /\ updateMode_announce /\ UNCHANGED obs
  \/ Settled /\ updateMode_echo /\ UNCHANGED obs
  \/ /\ pcTick = "idle" /\ Settled /\ Arrival
     /\ \E payload \in {"ON", "OFF"} : onMqttMessage_enter(CommandTopic, payload)
     /\ UNCHANGED obs
  \/ onMqttMessage_parse /\ UNCHANGED obs
  \/ onMqttMessage_end /\ UNCHANGED obs
  \/ onMqttPublish_load /\ UNCHANGED obs
  \/ onMqttPublish_store /\ UNCHANGED obs

CadenceSpec == Init /\ [][NextCadence]_vars

(* WrapSpec: the clock is about to wrap.  The initial states are those    *)
(* the program is in after 2^32 - WrapLead ticks of an uptime without any  *)
(* command (Mode Normal, no commit ever): either no publish was ever       *)
(* acknowledged, or every heartbeat was.  Ticks begin while the clock is   *)
(* within WrapLead ticks before the wrap or has not reached WrapLag;       *)
(* messages and connections arrive as in Spec, and also while the clock is *)
(* less than ArrivalSlack ticks before the wrap.                           *)

\* the clock at the acknowledgement of the last heartbeat before WrapStart
LastBeatAck ==
  WrapStart - U32Mod(WrapStart - 1, MQTT_KEEPALIVE_INTERVAL)

WrapInit ==
  /\ g_excess = FALSE
  /\ g_currentMode = 0
  /\ g_currentStateTime = WrapStart
  /\ g_mqttLastResponseTime \in {0, LastBeatAck}
  /\ pin = PinLevel(0)
  /\ pcTick = "idle"
  /\ pcMsg = "idle"
  /\ r_excess = FALSE
  /\ r_stateTime = 0
  /\ msg = NoMsg
  /\ unacked = [n |-> 0, age |-> 0]
  /\ out = IF IsDead(g_currentStateTime, g_mqttLastResponseTime)
              /\ ParanoidDue(g_currentStateTime)
           THEN <<setPins(0)>> ELSE <<>>
  /\ hist = IF g_mqttLastResponseTime = 0
            THEN [HistInit EXCEPT !.dwell = MIN_STATE_SECONDS,
                                  !.run = MIN_STATE_SECONDS,
                                  !.verdict = "dead"]
            ELSE [HistInit EXCEPT !.dwell = MIN_STATE_SECONDS,
                                  !.run = MIN_STATE_SECONDS,
                                  !.ackAge = U32Sub(WrapStart, LastBeatAck),
                                  !.verdict = "alive"]
  /\ obs = ObsInit

InWrapWindow ==
  \/ ~U32Lt(g_currentStateTime, WrapStart)
  \/ U32Lt(g_currentStateTime, WrapLag)

WrapArrival == Arrival \/ ~U32Lt(g_currentStateTime, 0 - ArrivalSlack)

NextWrap ==
  \/ InWrapWindow /\ MayBegin /\ updateMode_heartbeat /\ Overlap(TRUE)
  \/ updateMode_advance /\ Overlap(FALSE)
  \/ updateMode_deadcheck /\ Overlap(FALSE)
  \/ updateMode_excess /\ Overlap(FALSE)
  \/ updateMode_clear /\ Overlap(FALSE)
  \/ updateMode_compare /\ Overlap(FALSE)
  \/ updateMode_storeMode /\ Overlap(FALSE)
  \/ updateMode_storeClock /\ Overlap(FALSE)
  \/ updateMode_announce /\ Overlap(FALSE)
  \/ updateMode_echo /\ Overlap(FALSE)
  \/ WrapArrival /\ onMqttMessage_begin /\ Overlap(FALSE)
  \/ onMqttMessage_parse /\ Overlap(FALSE)
  \/ onMqttMessage_end /\ Overlap(FALSE)
  \/ onMqttPublish_load /\ Overlap(FALSE)
  \/ onMqttPublish_store /\ Overlap(FALSE)
  \/ WrapArrival /\ onMqttConnect_begin /\ Overlap(FALSE)
  \/ onMqttConnect_end /\ Overlap(FALSE)
  \/ WrapArrival /\ onMqttDisconnect /\ Overlap(FALSE)

WrapSpec == WrapInit /\ [][NextWrap]_vars

TypeOK ==
  /\ g_excess \in BOOLEAN
  /\ g_currentMode \in {0, 1}
  /\ pin \in {LOW, HIGH}
  /\ pcTick \in {"idle", "advance", "deadcheck", "excess", "clear",
                 "compare", "commit", "modeStored", "clockStored",
                 "announce", "echo"}
  /\ pcMsg \in {"idle", "parse", "echo", "ack", "discovery"}
  /\ r_excess \in BOOLEAN
  /\ unacked.n \in 0 .. MaxUnacked
  /\ unacked.age \in 0 .. MaxAckDelay

(* ------------------------------ properties ----------------------------- *)

\* a step of onMqttMessage
MsgStep == pcMsg' # pcMsg /\ (pcMsg' = "parse" \/ pcMsg \in {"parse", "echo"})

\* the step of onMqttMessage that tests topic and payload
MsgParse == pcMsg = "parse" /\ pcMsg' = "echo"

\* the step of updateMode that advances the clock
AdvanceStep == pcTick = "advance" /\ pcTick' # "advance"

\* the step of updateMode that computes and compares mqttDiff (the
\* dead-check)
DeadCheckStep == pcTick = "deadcheck" /\ pcTick' # "deadcheck"

\* the step of updateMode that tests g_excess on the dead path
ExcessStep == pcTick = "excess" /\ pcTick' # "excess"

(* C1: Mode changes only in a step before which at least MIN_STATE_SECONDS *)
(* ticks have begun since Mode last changed, or since startup if it never  *)
(* did: between two changes of Mode, and between startup and the first,    *)
(* at least MIN_STATE_SECONDS ticks elapse.                                *)
C1_DwellInvariant ==
  [][g_currentMode' # g_currentMode => hist.dwell >= MIN_STATE_SECONDS]_vars

\* Mode has gone to Excess and has just been committed back to Normal (the
\* pin is still HIGH: setPins is the next step)
C1_Witness ==
  /\ pcTick = "announce"
  /\ g_currentMode = 0
  /\ pin = HIGH
  /\ g_currentStateTime = 0
  /\ hist.dwell = 0

(* C3 (as claimed): when the dead-check runs (the clock has reached        *)
(* MIN_STATE_SECONDS) while g_excess is set, no callback is in progress    *)
(* and the acknowledgement recorded last arrived more than MQTT_DEAD_TIME  *)
(* ticks ago, it takes the branch that clears g_excess.                    *)
C3_FailSafeReversion ==
  [][(/\ DeadCheckStep /\ pcMsg = "idle"
      /\ g_excess /\ hist.ackAge > MQTT_DEAD_TIME)
       => pcTick' = "excess"]_vars

(* C4: a call of updateMode that changes Mode also sets the clock to 0     *)
(* (the two stores of the commit, in either order), the clock is 0 from    *)
(* the second of them until that call returns, and a dead-check reports    *)
(* dead only if the acknowledgement recorded last arrived more than        *)
(* MQTT_DEAD_TIME ticks ago, the first one after a commit included.        *)
C4_ResetOnCommit ==
  /\ [][g_currentMode' # g_currentMode
          => \/ pcTick' = "modeStored"
             \/ g_currentStateTime' = 0 /\ pcTick' = "announce"]_vars
  /\ [][pcTick = "modeStored"
          => \/ pcTick' = "modeStored"
             \/ g_currentStateTime' = 0 /\ pcTick' = "announce"]_vars
  /\ [][(pcTick \in {"announce", "echo"})
          => /\ g_currentStateTime' = 0
             /\ pcTick' \in {"announce", "echo", "idle"}]_vars
  /\ [][(hist.verdict # "dead" /\ hist'.verdict = "dead")
          => hist.ackAge > MQTT_DEAD_TIME]_vars

\* the first dead-check after a commit to Excess has just reported dead
C4_Witness ==
  /\ hist.verdict = "dead"
  /\ g_currentMode = 1
  /\ g_currentStateTime = MIN_STATE_SECONDS
  /\ pcTick = "compare"

(* C5 (as claimed): when onMqttMessage has handled a message of another    *)
(* topic, g_excess is what it was when the handler was entered.            *)
C5_UnknownTopicIgnored ==
  [][(MsgParse /\ msg.topic # CommandTopic) => g_excess' = hist.before]_vars

(* C6: onMqttMessage on the command topic leaves g_excess true for "ON"    *)
(* and false for "OFF" and for any other payload, and no step of it        *)
(* changes Mode, the clock or the last response time.                      *)
C6_CommandPayload ==
  /\ [][(MsgParse /\ msg.topic = CommandTopic)
          => g_excess' = (msg.payload = "ON")]_vars
  /\ [][MsgStep => UNCHANGED <<g_currentMode, g_currentStateTime,
                               g_mqttLastResponseTime>>]_vars

\* "MAYBE" on the command topic has been tested; g_excess was set before
C6_Witness ==
  /\ pcMsg = "echo"
  /\ msg = [topic |-> CommandTopic, payload |-> "MAYBE"]
  /\ out = <<Diagnostic("invalid payload")>>
  /\ hist.before
  /\ ~g_excess

(* C7 (as claimed): while onMqttMessage handles "ON", entered with Mode =  *)
(* Excess and g_excess set, no tick that found the connection alive        *)
(* commits Mode to Normal.                                                 *)
C7_NoTransientCommit ==
  [][(/\ pcMsg = "parse"
      /\ msg = [topic |-> CommandTopic, payload |-> "ON"]
      /\ hist.before
      /\ hist.verdict = "alive"
      /\ g_currentMode = 1)
       => g_currentMode' = 1]_vars

\* the value the commands request: g_excess, but for the time onMqttMessage
\* takes to handle an "ON" that repeats the value g_excess had
DesiredMode ==
  IF pcMsg = "parse" /\ hist.before /\ Parsed(msg, g_excess)
  THEN TRUE ELSE g_excess

(* C8 (as claimed): Mode changes only in a tick whose advanced clock has   *)
(* reached MIN_STATE_SECONDS, the commit that changes it also resets the   *)
(* clock and the next step of the tick writes the new Mode to the pin and  *)
(* to the Mode topic; and a tick that found the connection alive with the  *)
(* clock at MIN_STATE_SECONDS or more does not return with Mode different  *)
(* from the requested value: it commits at once, not a tick later.         *)
C8_PromptCommit ==
  /\ [][(pcTick # "commit" /\ pcTick' = "commit")
          => ~U32Lt(g_currentStateTime, MIN_STATE_SECONDS)]_vars
  /\ [][g_currentMode' # g_currentMode
          => /\ pcTick \in {"commit", "clockStored"}
             /\ pcTick' = "announce" => g_currentStateTime' = 0]_vars
  /\ [][(pcTick = "announce" /\ pcTick' # "announce")
          => /\ pin' = PinLevel(g_currentMode')
             /\ out' = <<setPins(g_currentMode'),
                         mqttPublishMode(g_currentMode')>>]_vars
  /\ [][(pcTick = "compare" /\ pcTick' = "idle" /\ hist.verdict = "alive")
          => g_currentMode = BoolToInt(DesiredMode)]_vars

(* C2 (as claimed), stated so that a finite run refutes it: on a silent    *)
(* uptime Mode converges to Normal.  Once silent, the connection is found  *)
(* dead by every tick that passes the dwell gate, and only such a tick can *)
(* make Mode Normal: a tick of a silent uptime that found the connection   *)
(* dead and returns with g_excess false (including the case of Mode Excess *)
(* with g_excess already false) returns with Mode Normal and the pin LOW.  *)
(* (A tick that returns with Mode Excess instead leaves the program Stuck, *)
(* and by StuckForever no later tick changes that.)                        *)
C2_Convergence ==
  [][(/\ obs.quiet /\ pcMsg = "idle"
      /\ hist.verdict = "dead"
      /\ pcTick # "idle" /\ pcTick' = "idle"
      /\ ~g_excess')
       => g_currentMode' = 0 /\ pin' = LOW]_vars

\* the silent uptime is Stuck, and still so when the clock has reached
\* MaxTime: the tick that advanced the clock to MaxTime has returned from
\* the dead path with Mode Excess
C2_Witness ==
  /\ Stuck
  /\ pcTick = "idle"
  /\ hist.verdict = "dead"
  /\ g_currentStateTime = MaxTime

(* C10 (as claimed): the tick with index n, counted from startup, makes    *)
(* the heartbeat publish exactly if n is a multiple of                     *)
(* MQTT_KEEPALIVE_INTERVAL, whatever commits occurred.                     *)
C10_CadenceFromStartup ==
  [][obs'.ticks # obs.ticks
       => (out' = <<mqttPublishMode(g_currentMode)>>
             <=> obs.ticks % MQTT_KEEPALIVE_INTERVAL = 0)]_vars

(* C10 (amended): a tick makes the heartbeat publish exactly if the clock  *)
(* it finds, before advancing it, is a multiple of MQTT_KEEPALIVE_INTERVAL;*)
(* as long as the clock was never reset, n ticks have made                 *)
(* ceiling(n / MQTT_KEEPALIVE_INTERVAL) heartbeat publishes (17 for 1000). *)
C10_CadenceFromReset ==
  /\ [][obs'.ticks # obs.ticks
          => (out' = <<mqttPublishMode(g_currentMode)>>
                <=> g_currentStateTime % MQTT_KEEPALIVE_INTERVAL = 0)]_vars
  /\ [](obs.ticks = g_currentStateTime
          => obs.beats = (obs.ticks + MQTT_KEEPALIVE_INTERVAL - 1)
                           \div MQTT_KEEPALIVE_INTERVAL)

\* 1000 ticks without a commit: 17 heartbeats
C10_Witness ==
  /\ obs.ticks = 1000
  /\ g_currentStateTime = 1000
  /\ obs.beats = 17

(* C9: no step of onMqttMessage changes Mode, the clock, the last response *)
(* time or the pin, or writes anything but diagnostics and the echo of     *)
(* g_excess; and a command that repeats the value g_excess had leaves      *)
(* g_excess at that value.                                                 *)
C9_Idempotent ==
  /\ [][MsgStep
          => /\ UNCHANGED <<g_currentMode, g_currentStateTime,
                            g_mqttLastResponseTime, pin>>
             /\ \A i \in DOMAIN out' :
                  \/ out'[i].op = "diagnostic"
                  \/ out'[i] = mqttPublishExcess(g_excess')]_vars
  /\ [][(/\ MsgParse
         /\ msg.topic = CommandTopic
         /\ msg.payload \in {"ON", "OFF"}
         /\ hist.before = (msg.payload = "ON"))
          => g_excess' = hist.before]_vars

\* "ON" has been handled once more while g_excess was already set
C9_Witness ==
  /\ pcMsg = "idle"
  /\ out = <<mqttPublishExcess(TRUE)>>
  /\ hist.before
  /\ g_excess

(* C11 (as claimed, the case of the forced change): a tick whose          *)
(* dead-check cleared g_excess publishes the Excess state before it        *)
(* returns, also when Mode is already Normal and nothing is committed.     *)
C11_ExcessPublished ==
  [][(/\ pcTick = "compare" /\ hist.verdict = "dead" /\ pcTick' = "idle"
      /\ pcMsg = "idle" /\ ~g_excess /\ g_currentMode = 0)
       => \E i \in DOMAIN out' : out'[i].op = "publishExcess"]_vars

(* C12 (as claimed): when the dead path of updateMode re-asserts the pin   *)
(* (the "paranoid" setPins of line 150), Mode is Normal and the level      *)
(* written is LOW.                                                         *)
C12_ParanoidWritesNormal ==
  [][(ExcessStep /\ pcMsg = "idle" /\ out' # <<>>)
       => /\ g_currentMode = 0
          /\ out' = <<[op |-> "digitalWrite", val |-> LOW]>>]_vars

(* C13 (as claimed): at every dead-check the connection is judged dead     *)
(* exactly if more than MQTT_DEAD_TIME ticks have begun since the last     *)
(* onMqttPublish, and up to that limit mqttDiff is that number of ticks,   *)
(* whether or not a commit reset the clock in between.                     *)
C13_DeadElapsedIsAckAge ==
  [][DeadCheckStep
       => /\ (hist'.verdict = "dead") <=> (hist.ackAge > MQTT_DEAD_TIME)
          /\ hist.ackAge <= MQTT_DEAD_TIME
               => mqttDiff(g_currentStateTime, g_mqttLastResponseTime)
                    = hist.ackAge]_vars

(* C14 (as claimed): the tick that makes the number of ticks since the    *)
(* last onMqttPublish, which mqttDiff then equals, exceed MQTT_DEAD_TIME   *)
(* while Mode = Excess leaves g_excess false, also while the clock is      *)
(* below MIN_STATE_SECONDS.                                                *)
C14_ForcedAtDeadThreshold ==
  [][(/\ pcTick = "advance" /\ pcTick' = "idle" /\ pcMsg = "idle"
      /\ g_currentStateTime' # g_currentStateTime
      /\ g_currentMode = 1
      /\ hist.ackAge = MQTT_DEAD_TIME /\ hist'.ackAge > MQTT_DEAD_TIME
      /\ U32Sub(g_currentStateTime', g_mqttLastResponseTime) = hist'.ackAge)
       => ~g_excess']_vars

(* C14 (amended), with no handler preempted: updateMode clears g_excess    *)
(* only on the dead path (line 145), which it takes only once the clock    *)
(* has reached MIN_STATE_SECONDS and the dead-check has found mqttDiff     *)
(* above MQTT_DEAD_TIME; a tick that leaves the clock below                *)
(* MIN_STATE_SECONDS returns at the dwell gate and leaves g_excess and     *)
(* Mode alone however old the last acknowledgement is.  The tick that      *)
(* finds the clock at MIN_STATE_SECONDS or more and mqttDiff above         *)
(* MQTT_DEAD_TIME while g_excess is set takes the dead path and clears     *)
(* g_excess; with Mode = Excess its comparison then goes on to the commit, *)
(* which stores Mode Normal; and when that tick returns g_excess is false, *)
(* Mode is Normal, the pin is LOW, and, if Mode was committed, the clock   *)
(* is 0.                                                                   *)
C14_ForcedAtDwellThreshold ==
  /\ [][(pcTick' # pcTick /\ g_excess /\ ~g_excess')
          => /\ pcTick = "clear"
             /\ ~U32Lt(g_currentStateTime, MIN_STATE_SECONDS)
             /\ hist.verdict = "dead"]_vars
  /\ [][(hist.verdict # "dead" /\ hist'.verdict = "dead")
          => /\ pcTick = "deadcheck"
             /\ ~U32Lt(g_currentStateTime, MIN_STATE_SECONDS)
             /\ U32Gt(U32Sub(g_currentStateTime, g_mqttLastResponseTime),
                      MQTT_DEAD_TIME)]_vars
  /\ [][(AdvanceStep /\ U32Lt(g_currentStateTime', MIN_STATE_SECONDS))
          => pcTick' = "idle" /\ UNCHANGED <<g_excess, g_currentMode>>]_vars
  /\ [][(/\ DeadCheckStep /\ g_excess
         /\ U32Gt(U32Sub(g_currentStateTime, g_mqttLastResponseTime),
                  MQTT_DEAD_TIME))
          => pcTick' = "excess" /\ hist'.verdict = "dead"]_vars
  /\ [][(ExcessStep /\ g_excess) => pcTick' = "clear"]_vars
  /\ [][(pcTick = "clear" /\ pcTick' # "clear")
          => ~g_excess' /\ pcTick' = "compare"]_vars
  /\ [][(/\ pcTick = "compare" /\ pcTick' # "compare"
         /\ hist.verdict = "dead" /\ g_currentMode = 1)
          => pcTick' = "commit"]_vars
  /\ [][(/\ hist.verdict = "dead"
         /\ pcTick \in {"commit", "clockStored"}
         /\ pcTick' \in {"modeStored", "announce"})
          => g_currentMode' = 0]_vars
  /\ [][(/\ hist.verdict = "dead"
         /\ pcTick \in {"compare", "echo"} /\ pcTick' = "idle")
          => /\ ~g_excess'
             /\ g_currentMode' = 0
             /\ pin' = LOW
             /\ pcTick = "echo" => g_currentStateTime' = 0]_vars
  /\ [][(g_currentMode = 1 /\ g_currentMode' = 0)
          => pcTick \in {"commit", "clockStored"}]_vars
  /\ [][(pcTick # pcTick' /\ pcTick' \in {"commit", "clockStored"})
          => /\ pcTick \in {"compare", "commit"}
             /\ ~U32Lt(g_currentStateTime, MIN_STATE_SECONDS)]_vars

\* Mode was Excess with g_excess set and the last acknowledgement recorded at
\* clock 50, none since: the tick that advanced the clock to
\* MIN_STATE_SECONDS has found the connection dead, cleared g_excess,
\* committed Mode Normal and returned
C14_Witness ==
  /\ pcTick = "idle"
  /\ pcMsg = "idle"
  /\ hist.verdict = "dead"
  /\ hist.dwell = 0
  /\ g_currentMode = 0
  /\ ~g_excess
  /\ pin = LOW
  /\ g_mqttLastResponseTime = 50
  /\ g_currentStateTime = 0
  /\ out = <<mqttPublishExcess(FALSE)>>

(* C15 (as claimed): the dwell gate lets a tick through to the dead-check  *)
(* and the comparison whenever MIN_STATE_SECONDS ticks or more have begun  *)
(* since the program last set the clock to 0, also when the clock has      *)
(* wrapped to 0 in between: a change requested over a live connection is   *)
(* then committed on that tick.                                            *)
C15_WrapHarmless ==
  [][(AdvanceStep /\ hist'.run >= MIN_STATE_SECONDS)
       => pcTick' = "deadcheck"]_vars

(* C16: Mode changes and the clock is set back to 0 only in the two stores *)
(* of the commit of updateMode (lines 160-161), and the pin level changes  *)
(* only in the setPins that follows it; every step that is not a step of   *)
(* updateMode (the steps of onMqttMessage, onMqttPublish, onMqttConnect    *)
(* and onMqttDisconnect) leaves Mode, the clock and the pin as they are,   *)
(* and onMqttMessage changes only g_excess and writes only diagnostics and *)
(* the echo of g_excess.                                                   *)
C16_OnlyCommitChangesMode ==
  /\ [][g_currentMode' # g_currentMode
          => /\ pcTick \in {"commit", "clockStored"}
             /\ pcTick' \in {"modeStored", "announce"}]_vars
  /\ [][(g_currentStateTime' = 0 /\ g_currentStateTime # 0)
          => /\ pcTick \in {"commit", "modeStored"}
             /\ pcTick' \in {"clockStored", "announce"}]_vars
  /\ [][pin' # pin => pcTick = "announce" /\ pcTick' = "echo"]_vars
  /\ [][pcTick' = pcTick
          => UNCHANGED <<g_currentMode, g_currentStateTime, pin>>]_vars
  /\ [][MsgStep
          => /\ UNCHANGED <<g_currentMode, g_currentStateTime,
                            g_mqttLastResponseTime, pin, pcTick>>
             /\ \A i \in DOMAIN out' :
                  out'[i].op \in {"diagnostic", "publishExcess"}]_vars

\* onMqttConnect has run in Mode Excess with the clock running: it
\* announced the state and changed none of it
C16_Witness ==
  /\ pcMsg = "idle"
  /\ out = mqttDiscoverMode(1) \o <<[op |-> "subscribe", val |-> CommandTopic]>>
  /\ g_currentMode = 1
  /\ pin = HIGH
  /\ g_currentStateTime = 1

(* C17: a tick whose dead-check finds the connection dead and which then   *)
(* finds g_excess already false ends there: these two steps leave Mode,    *)
(* g_excess, the last response time and the clock as they are; the second  *)
(* writes the level of Mode to the pin                                     *)
(* exactly if the clock, already advanced, is a multiple of                *)
(* PARANOID_INTERVAL, and writes nothing else; and the steps that began    *)
(* the tick published at most the heartbeat and advanced the clock by one. *)
C17_DeadPathFrame ==
  /\ [][DeadCheckStep
          => /\ UNCHANGED <<g_currentMode, g_excess, g_mqttLastResponseTime,
                            g_currentStateTime, pin>>
             /\ out' = <<>>]_vars
  /\ [][(ExcessStep /\ ~g_excess)
          => /\ pcTick' = "idle"
             /\ UNCHANGED <<g_currentMode, g_excess, g_mqttLastResponseTime,
                            g_currentStateTime, pin>>
             /\ out' = IF U32Mod(g_currentStateTime, PARANOID_INTERVAL) = 0
                       THEN <<[op |-> "digitalWrite",
                               val |-> IF g_currentMode = 1 THEN HIGH ELSE LOW]>>
                       ELSE <<>>]_vars
  /\ [][(pcTick = "idle" /\ pcTick' # "idle")
          => /\ pcTick' = "advance"
             /\ UNCHANGED <<g_currentMode, g_excess, g_mqttLastResponseTime,
                            g_currentStateTime, pin>>
             /\ \A i \in DOMAIN out' : out'[i].op = "publishMode"]_vars
  /\ [][AdvanceStep
          => /\ g_currentStateTime' = g_currentStateTime + 1
             /\ UNCHANGED <<g_currentMode, g_excess, g_mqttLastResponseTime,
                            pin>>
             /\ out' = <<>>]_vars

\* the dead path has just re-asserted the pin, 30 ticks after the first time
C17_Witness ==
  /\ pcTick = "idle"
  /\ hist.verdict = "dead"
  /\ ~g_excess
  /\ g_currentMode = 0
  /\ g_currentStateTime = MIN_STATE_SECONDS + PARANOID_INTERVAL
  /\ out = <<[op |-> "digitalWrite", val |-> LOW]>>

(* C18 (as claimed): whenever a call of updateMode or a callback has       *)
(* returned, the pin is HIGH exactly if Mode is 1 (Excess).                *)
C18_PinFollowsMode ==
  [][(\/ pcTick # "idle" /\ pcTick' = "idle"
      \/ pcMsg # "idle" /\ pcMsg' = "idle")
       => ((pin' = HIGH) <=> (g_currentMode' = 1))]_vars

(* C19 (as claimed): Mode goes from Normal to Excess only in a tick whose  *)
(* dead-check found mqttDiff at most MQTT_DEAD_TIME.                       *)
C19_NoCommitToExcessWhenDead ==
  [][(g_currentMode = 0 /\ g_currentMode' = 1) => hist.verdict = "alive"]_vars

====
